---- MODULE Spec2Model ----
(***************************************************************************)
(* Model of src/github_stats.py: the Queries client (a counting semaphore  *)
(* around every HTTP request, the GraphQL query, the REST query with its   *)
(* 202 retry loop) and the Stats aggregator built on it.                   *)
(*                                                                         *)
(* Every coroutine is cut at its suspension points (await): one action is  *)
(* the code a task runs between two suspensions.                           *)
(***************************************************************************)
EXTENDS Integers, Sequences, FiniteSets, TLC

\* ------------------------------------------------------------------ bounds
\* number of calls issued against one client
NumCalls == 2
\* largest max_connections a Queries client is constructed with
MaxCapacity == 2
\* 202 answers the server gives to one call in the concurrent workload
Max202 == 1

\* ------------------------------------------------------- program constants
\* range(30): the attempt budget of query_rest
Budget == 30
\* asyncio.sleep(2): the backoff interval
BackoffInterval == 2
\* max_connections: int = 10
DefaultMaxConnections == 10

\* --------------------------------------------------------------- JSON values
\* A decoded JSON document. An object is the sequence of its <<key, value>>
\* pairs, in document order, as a Python dict keeps them.
JNull == [t |-> "null", v |-> 0]
JNum(n) == [t |-> "num", v |-> n]
JStr(s) == [t |-> "str", v |-> s]
JBool(b) == [t |-> "bool", v |-> b]
JList(s) == [t |-> "list", v |-> s]
JObj(pairs) == [t |-> "obj", v |-> pairs]

\* the value no call has returned yet
NoValue == [t |-> "none", v |-> 0]

\* `return {}`: the empty dict the query layer returns on failure
Sentinel == JObj(<< >>)

\* bool(v) of a decoded value
Truthy(x) ==
    CASE x.t = "null" -> FALSE
      [] x.t = "num" -> x.v # 0
      [] x.t = "str" -> x.v # ""
      [] x.t = "bool" -> x.v
      [] x.t = "list" -> Len(x.v) > 0
      [] x.t = "obj" -> Len(x.v) > 0

\* an exception raised while evaluating an expression
Raise(e) == [t |-> "raise", v |-> e]
IsRaise(x) == x.t = "raise"

\* `k in x` for a string key k: a dict has the key, a list has the element
Contains(x, k) ==
    CASE x.t = "obj" -> \E i \in 1..Len(x.v) : x.v[i][1] = k
      [] x.t = "list" -> \E i \in 1..Len(x.v) : x.v[i] = JStr(k)

\* x[k] for a string key k: the value, KeyError when a dict lacks the key,
\* TypeError when x is not a dict (None, a list, a string, a number)
GetItem(x, k) ==
    IF IsRaise(x) THEN x
    ELSE IF x.t # "obj" THEN Raise("TypeError")
    ELSE IF ~Contains(x, k) THEN Raise("KeyError")
    ELSE x.v[CHOOSE i \in 1..Len(x.v) : x.v[i][1] = k][2]

\* --------------------------------------------------------------- responses
\* The body of a response as it is on the wire: r.json() decodes it or raises.
Body(doc) == [decodable |-> TRUE, doc |-> doc]
Undecodable == [decodable |-> FALSE, doc |-> JNull]
NoBody == [decodable |-> FALSE, doc |-> NoValue]

\* await r.json(): the decoded document, or the exception of the decoder
Json(raw) == IF raw.decodable THEN raw.doc ELSE Raise("ContentTypeError")

\* one repository node of the GraphQL answer
Repo(stars, fork) ==
    JObj(<< <<"stargazerCount", JNum(stars)>>, <<"forkCount", JNum(0)>>,
            <<"isFork", JBool(fork)>> >>)

Repositories(total, nodes) ==
    JObj(<< <<"totalCount", JNum(total)>>, <<"nodes", JList(nodes)>> >>)

UserDoc(user) == JObj(<< <<"data", JObj(<< <<"user", user>> >>)>> >>)

User(name, repositories) ==
    JObj(<< <<"name", name>>, <<"repositories", repositories>> >>)

\* two repositories, stars 5 and 10, the second one a fork
DocTwoRepos ==
    UserDoc(User(JStr("Octo"),
                 Repositories(2, << Repo(5, FALSE), Repo(10, TRUE) >>)))
\* a user without a display name
DocNoName == UserDoc(User(JNull, Repositories(1, << Repo(3, FALSE) >>)))
\* a well-formed answer with no repository
DocNoRepos == UserDoc(User(JStr("Octo"), Repositories(0, << >>)))

\* the shapes of a missing or malformed answer
DocEmpty == JObj(<< >>)
DocNoData == JObj(<< <<"message", JStr("Bad credentials")>> >>)
DocDataNull == JObj(<< <<"data", JNull>>, <<"errors", JList(<< JStr("e") >>)>> >>)
DocNoUser == JObj(<< <<"data", JObj(<< >>)>> >>)
DocUserNull == UserDoc(JNull)
DocNoRepositories == UserDoc(JObj(<< <<"name", JStr("Octo")>> >>))
DocNoNodes ==
    UserDoc(User(JStr("Octo"), JObj(<< <<"totalCount", JNum(2)>> >>)))
DocNoTotalCount ==
    UserDoc(User(JStr("Octo"), JObj(<< <<"nodes", JList(<< Repo(5, FALSE) >>)>> >>)))

WellFormedDocs == {DocTwoRepos, DocNoName, DocNoRepos}
MalformedDocs ==
    {DocEmpty, DocNoData, DocDataNull, DocNoUser, DocUserNull,
     DocNoRepositories, DocNoNodes, DocNoTotalCount}

\* ------------------------------------------------------------------ to_str
\* sum(repo["stargazerCount"] for repo in repos)
RECURSIVE SumStars(_)
SumStars(repos) ==
    IF Len(repos) = 0 THEN JNum(0)
    ELSE LET s == GetItem(Head(repos), "stargazerCount")
             rest == SumStars(Tail(repos))
         IN IF IsRaise(s) THEN s
            ELSE IF s.t # "num" THEN Raise("TypeError")
            ELSE IF IsRaise(rest) THEN rest
            ELSE JNum(s.v + rest.v)

NoOutput == [kind |-> "none", user |-> "", name |-> "", repos |-> 0, stars |-> 0]
ErrorString(username) ==
    [kind |-> "error", user |-> username, name |-> "", repos |-> 0, stars |-> 0]
Raised(e) == [kind |-> "raise", user |-> "", name |-> e, repos |-> 0, stars |-> 0]
Summary(username, name, total_repos, total_stars) ==
    [kind |-> "summary", user |-> username, name |-> name,
     repos |-> total_repos, stars |-> total_stars]

\* the body of Stats.to_str after `data = await self.get_user_data()`
ToStr(data, username) ==
    IF ~Truthy(data) THEN ErrorString(username)
    ELSE IF ~Contains(data, "data") THEN ErrorString(username)
    ELSE LET user == GetItem(GetItem(data, "data"), "user")
         IN IF IsRaise(user) THEN Raised(user.v)
            ELSE IF ~Truthy(user) THEN ErrorString(username)
            ELSE LET repositories == GetItem(user, "repositories")
                     repos == GetItem(repositories, "nodes")
                     total_stars ==
                         IF IsRaise(repos) THEN repos
                         ELSE IF repos.t # "list" THEN Raise("TypeError")
                         ELSE SumStars(repos.v)
                     total_repos == GetItem(repositories, "totalCount")
                     name == GetItem(user, "name")
                 IN IF IsRaise(total_stars) THEN Raised(total_stars.v)
                    ELSE IF IsRaise(total_repos) THEN Raised(total_repos.v)
                    ELSE IF IsRaise(name) THEN Raised(name.v)
                    ELSE Summary(username,
                                 IF Truthy(name) THEN name.v ELSE "N/A",
                                 total_repos.v, total_stars.v)

\* ------------------------------------------------------------------- state
Calls == 1..NumCalls

VARIABLES
    client,     \* the Queries/Stats object: construction outcome, username
    permits,    \* self.semaphore._value: the free permits
    waiters,    \* self.semaphore._waiters: the calls suspended in acquire()
    granted,    \* the waiters whose future is set and who have not resumed
    calls,      \* the coroutine of every call: position, locals, history
    proc        \* the process running main(): position, environment, stdout

vars == <<client, permits, waiters, granted, calls, proc>>

\* arg and actor are what __init__ was given: the username argument and the
\* value of GITHUB_ACTOR
NoClient ==
    [state |-> "none", cls |-> "", arg |-> "", actor |-> "", username |-> "", cap |-> 0]

NewCall ==
    [kind |-> "none",       \* "query" or "query_rest"
     toStr |-> FALSE,       \* the query is awaited by Stats.to_str
     pc |-> "idle",         \* idle, acquire, waiting, io, decode, sleep, done
     attempt |-> 0,         \* the index of the retry loop
     posts |-> 0,           \* POST requests issued
     gets |-> 0,            \* GET requests issued
     sleeps |-> 0,          \* backoff sleeps begun
     slept |-> 0,           \* time spent in backoff sleeps
     responses |-> << >>,   \* the statuses the server answered, in order
     body |-> NoBody,       \* body of the last response
     holds |-> FALSE,       \* inside `async with self.semaphore`
     acquired |-> 0,        \* times the call entered `async with self.semaphore`
     released |-> 0,        \* times the call left it
     diag |-> << >>,        \* what the call has printed
     fault |-> "none",      \* the exception raised inside the call, if any
     outcome |-> "none",    \* returned, raised or cancelled
     ret |-> NoValue,       \* the value query / query_rest returned
     out |-> NoOutput]      \* the value to_str returned

\* ---------------------------------------------------------------- __init__
\* os.getenv("GITHUB_ACTOR"): None when the variable is unset
Unset == "<unset>"
\* the unset variable taken for a name, as str(os.getenv(...)) would
ResolveUsernameNoneAsName(username, actor) ==
    IF username # "" THEN username ELSE actor

\* `username or os.getenv("GITHUB_ACTOR")`; "" stands for a falsy result
ResolveUsername(username, actor) ==
    IF username # "" THEN username
    ELSE IF actor = Unset THEN "" ELSE actor

Usernames == {"", "octocat"}
Actors == {Unset, "", "actor"}
Classes == {"Queries", "Stats"}

\* to_str tabulated over the documents a query can return and the usernames
\* an object can have
Documents == WellFormedDocs \cup MalformedDocs \cup {Sentinel}
ToStrTable ==
    [d \in Documents |-> [u \in Usernames \cup Actors |-> ToStr(d, u)]]

\* Queries.__init__ / Stats.__init__: Stats passes no max_connections
Construct(username, actor, cls, max_connections) ==
    /\ client.state = "none"
    /\ LET name == ResolveUsername(username, actor)
           cap == IF cls = "Stats" THEN DefaultMaxConnections ELSE max_connections
       IN IF name = ""
          THEN /\ client' = [state |-> "raised", cls |-> cls, arg |-> username,
                              actor |-> actor, username |-> "", cap |-> 0]
               /\ permits' = permits
          ELSE /\ client' = [state |-> "ready", cls |-> cls, arg |-> username,
                              actor |-> actor, username |-> name, cap |-> cap]
               /\ permits' = cap
    /\ UNCHANGED <<waiters, granted, calls, proc>>

\* --------------------------------------------------------------- semaphore
\* a locked() that looks at the waiters only and not at the value
LockedIgnoresValue == Len(waiters) > 0

\* Semaphore.locked()
Locked == permits = 0 \/ Len(waiters) > 0

Remove(seq, c) == SelectSeq(seq, LAMBDA x : x # c)

\* Semaphore._wake_up_next on value p, deque w, woken set g
WakeUpNext(p, w, g) ==
    IF \E i \in 1..Len(w) : w[i] \notin g
    THEN LET i == CHOOSE i \in 1..Len(w) :
                      /\ w[i] \notin g
                      /\ \A j \in 1..(i - 1) : w[j] \in g
         IN [permits |-> p - 1, granted |-> g \cup {w[i]}]
    ELSE [permits |-> p, granted |-> g]

\* a release that returns the permit twice
ReleaseTwice(p, w, g) == WakeUpNext(p + 2, w, g)

\* a release that returns the permit and wakes nobody
ReleaseNoWakeUp(p, w, g) == [permits |-> p + 1, granted |-> g]

\* Semaphore.release(), run by __aexit__ of `async with self.semaphore`
Release(p, w, g) == WakeUpNext(p + 1, w, g)

\* a call owns a permit inside the `async with`, or once its future is set
HoldsPermit(c) == calls[c].holds \/ c \in granted

\* ------------------------------------------------------------- call helpers
Set(c, rec) == [calls EXCEPT ![c] = rec]

\* a query that sends its POST twice
SendRequestTwice(rec) ==
    IF rec.kind = "query"
    THEN [rec EXCEPT !.pc = "io", !.holds = TRUE, !.acquired = @ + 1,
                     !.posts = @ + 2]
    ELSE [rec EXCEPT !.pc = "io", !.holds = TRUE, !.acquired = @ + 1,
                     !.gets = @ + 1]

\* session.post(...) in query, session.get(...) in query_rest: the request goes
\* out as the body of `async with self.semaphore` is entered
SendRequest(rec) ==
    IF rec.kind = "query"
    THEN [rec EXCEPT !.pc = "io", !.holds = TRUE, !.acquired = @ + 1,
                     !.posts = @ + 1]
    ELSE [rec EXCEPT !.pc = "io", !.holds = TRUE, !.acquired = @ + 1,
                     !.gets = @ + 1]

\* `return value` of query / query_rest; to_str goes on with the value at once
Return(rec, value) ==
    [rec EXCEPT !.pc = "done", !.holds = FALSE, !.outcome = "returned",
                !.released = IF rec.holds THEN @ + 1 ELSE @,
                !.ret = value,
                !.out = IF rec.toStr THEN ToStrTable[value][client.username]
                       ELSE @]

\* an except clause of query_rest that goes on with the loop: `continue` in
\* place of `break`
ExceptRetries(rec, e) ==
    LET r == [rec EXCEPT !.fault = e,
                         !.diag = Append(@, IF rec.kind = "query"
                                            THEN "GraphQL query failed"
                                            ELSE "REST query failed")]
    IN IF rec.kind = "query_rest" /\ rec.attempt + 1 < Budget
       THEN [r EXCEPT !.attempt = @ + 1, !.holds = FALSE, !.released = @ + 1,
                      !.pc = "acquire"]
       ELSE Return(r, Sentinel)

\* `except Exception as e: print(...)` then `return {}` (query) or `break` and
\* the `return {}` after the loop (query_rest)
Except(rec, e) ==
    Return([rec EXCEPT !.fault = e,
                       !.diag = Append(@, IF rec.kind = "query"
                                          THEN "GraphQL query failed"
                                          ELSE "REST query failed")],
           Sentinel)

\* leaving `async with self.semaphore`: __aexit__ releases the permit
ExitSemaphore ==
    LET r == Release(permits, waiters, granted)
    IN /\ permits' = r.permits
       /\ granted' = r.granted
       /\ waiters' = waiters

\* -------------------------------------------------------------------- main
NoProc == [pc |-> "none", token |-> "", actor |-> "", stdout |-> << >>]

\* print("Error: ... environment variable is missing.")
MainError(variable) ==
    [kind |-> "missing", user |-> "", name |-> variable, repos |-> 0, stars |-> 0]

\* `not os.getenv(...)`: the variable is unset or empty
Missing(value) == value = Unset \/ value = ""

\* `print(await s.to_str())` once the call of main has ended, cs being the
\* calls after the step: the value of to_str is printed; an exception of
\* to_str leaves main without a print; a cancelled main (KeyboardInterrupt)
\* prints nothing
MainAfter(cs) ==
    IF proc.pc = "awaiting" /\ cs[1].pc = "done"
    THEN IF cs[1].outcome = "cancelled" THEN [proc EXCEPT !.pc = "interrupted"]
         ELSE IF cs[1].out.kind = "raise" THEN [proc EXCEPT !.pc = "crashed"]
         ELSE [proc EXCEPT !.pc = "exit", !.stdout = Append(@, cs[1].out)]
    ELSE proc

\* --------------------------------------------------------------- operations
Kinds == {"query", "query_rest", "to_str"}

\* a caller awaits query(...), query_rest(...) or to_str(); calls are numbered
\* in the order they are made
Start(c, k) ==
    /\ client.state = "ready"
    /\ calls[c].pc = "idle"
    /\ \A d \in Calls : d < c => calls[d].pc # "idle"
    /\ k = "to_str" => client.cls = "Stats"
    /\ calls' = Set(c, [calls[c] EXCEPT
                           !.kind = IF k = "to_str" THEN "query" ELSE k,
                           !.toStr = (k = "to_str"),
                           !.pc = "acquire"])
    /\ UNCHANGED <<client, permits, waiters, granted, proc>>

\* `async with self.semaphore`: Semaphore.acquire() takes a permit at once,
\* or queues the call
Acquire(c) ==
    /\ calls[c].pc = "acquire"
    /\ IF ~Locked
       THEN /\ permits' = permits - 1
            /\ calls' = Set(c, SendRequest(calls[c]))
            /\ UNCHANGED <<waiters, granted>>
       ELSE /\ waiters' = Append(waiters, c)
            /\ calls' = Set(c, [calls[c] EXCEPT !.pc = "waiting"])
            /\ UNCHANGED <<permits, granted>>
    /\ UNCHANGED <<client, proc>>

\* the woken waiter resumes in acquire(): it leaves the deque, passes a free
\* permit on to the next waiter, and enters the body
Resume(c) ==
    /\ calls[c].pc = "waiting"
    /\ c \in granted
    /\ LET w == Remove(waiters, c)
           g == granted \ {c}
           r == IF permits > 0 THEN WakeUpNext(permits, w, g)
                ELSE [permits |-> permits, granted |-> g]
       IN /\ waiters' = w
          /\ permits' = r.permits
          /\ granted' = r.granted
    /\ calls' = Set(c, SendRequest(calls[c]))
    /\ UNCHANGED <<client, proc>>

\* a release on the success path only: the exception path keeps the permit
TransportFaultLeak(c) ==
    /\ calls[c].pc = "io"
    /\ calls' = Set(c, Except(calls[c], "ClientError"))
    /\ proc' = MainAfter(calls')
    /\ UNCHANGED <<client, permits, waiters, granted>>

\* session.post / session.get raises (connection error, timeout)
TransportFault(c) ==
    /\ calls[c].pc = "io"
    /\ ExitSemaphore
    /\ calls' = Set(c, Except(calls[c], "ClientError"))
    /\ proc' = MainAfter(calls')
    /\ UNCHANGED client

Statuses == {200, 202, 404}

\* the 202 answers a call has received
N202(rec) == Len(SelectSeq(rec.responses, LAMBDA s : s = 202))
\* the status of the last response, 0 before the first
LastStatus(rec) ==
    IF Len(rec.responses) = 0 THEN 0 ELSE rec.responses[Len(rec.responses)]

\* every status but 200 is polled again like a 202
RestOnStatusRetryAll(rec, s) ==
    IF s = 200
    THEN [rec EXCEPT !.pc = "decode"]
    ELSE [rec EXCEPT !.pc = "sleep", !.sleeps = @ + 1]

\* the branches on 200 exchanged: a 200 returns {} and other statuses decode
RestOnStatusSwapped(rec, s) ==
    IF s = 202
    THEN [rec EXCEPT !.pc = "sleep", !.sleeps = @ + 1]
    ELSE IF s = 200
    THEN Return(rec, Sentinel)
    ELSE [rec EXCEPT !.pc = "decode"]

\* query_rest on the response r: 202 sleeps, 200 decodes, others return {}
RestOnStatus(rec, s) ==
    IF s = 202
    THEN [rec EXCEPT !.pc = "sleep", !.sleeps = @ + 1]
    ELSE IF s = 200
    THEN [rec EXCEPT !.pc = "decode"]
    ELSE Return(rec, Sentinel)

\* the response arrives with status s and body b: query goes on to r.json()
\* whatever the status, query_rest looks at r.status. (The server sends a JSON
\* body with a 200, and with any status to a GraphQL request.)
Respond(c, s, b, quota) ==
    /\ calls[c].pc = "io"
    /\ s = 202 => N202(calls[c]) < quota
    /\ (calls[c].kind = "query_rest" /\ s # 200) => b = Undecodable
    /\ LET r == [calls[c] EXCEPT !.responses = Append(@, s), !.body = b]
           rec == IF r.kind = "query" THEN [r EXCEPT !.pc = "decode"]
                  ELSE RestOnStatus(r, s)
       IN /\ calls' = Set(c, rec)
          /\ IF rec.pc = "done" THEN ExitSemaphore
             ELSE UNCHANGED <<permits, waiters, granted>>
    /\ proc' = MainAfter(calls')
    /\ UNCHANGED client

\* `return await r.json()` is over: the document, or the decoder's exception
Decode(c) ==
    /\ calls[c].pc = "decode"
    /\ ExitSemaphore
    /\ LET d == Json(calls[c].body)
       IN calls' = Set(c, IF IsRaise(d) THEN Except(calls[c], d.v)
                          ELSE Return(calls[c], d))
    /\ proc' = MainAfter(calls')
    /\ UNCHANGED client

\* a retry loop with no counter: `while True` in place of range(30)
NextAttemptNoCounter(rec) ==
    [rec EXCEPT !.holds = FALSE, !.released = @ + 1, !.pc = "acquire"]

\* a retry loop that runs one attempt too many
NextAttemptOffByOne(rec) ==
    LET r == [rec EXCEPT !.attempt = @ + 1, !.holds = FALSE,
                         !.released = @ + 1]
    IN IF r.attempt <= Budget THEN [r EXCEPT !.pc = "acquire"]
       ELSE Return(r, Sentinel)

\* the loop of query_rest after `continue`: the next attempt, or, with the
\* range exhausted, the `return {}` after the loop
NextAttempt(rec) ==
    LET r == [rec EXCEPT !.attempt = @ + 1, !.holds = FALSE,
                         !.released = @ + 1]
    IN IF r.attempt < Budget THEN [r EXCEPT !.pc = "acquire"]
       ELSE Return(r, Sentinel)

\* asyncio.sleep(2) is over: `continue` leaves the `async with` blocks
WakeFromSleep(c) ==
    /\ calls[c].pc = "sleep"
    /\ ExitSemaphore
    /\ calls' = Set(c, NextAttempt([calls[c] EXCEPT !.slept = @ + BackoffInterval]))
    /\ proc' = MainAfter(calls')
    /\ UNCHANGED client

\* asyncio.sleep raises (fault injection)
SleepFault(c) ==
    /\ calls[c].pc = "sleep"
    /\ ExitSemaphore
    /\ calls' = Set(c, Except(calls[c], "SleepError"))
    /\ proc' = MainAfter(calls')
    /\ UNCHANGED client

\* the task of the call is cancelled at a suspension point: CancelledError is
\* no Exception, so it leaves the call through the `async with` blocks
Cancel(c) ==
    /\ calls[c].pc \in {"acquire", "waiting", "io", "decode", "sleep"}
    /\ LET w == Remove(waiters, c)
           g == granted \ {c}
           r == IF HoldsPermit(c) THEN Release(permits, w, g)
                ELSE [permits |-> permits, granted |-> g]
       IN /\ waiters' = w
          /\ permits' = r.permits
          /\ granted' = r.granted
    /\ calls' = Set(c, [calls[c] EXCEPT
                           !.pc = "done", !.holds = FALSE,
                           !.released = IF calls[c].holds THEN @ + 1 ELSE @,
                           !.outcome = "cancelled"])
    /\ proc' = MainAfter(calls')
    /\ UNCHANGED client

\* ----------------------------------------------------------- specifications
\* what the server sends in the concurrent workload
ConcurrentBodies == {Undecodable, Body(DocTwoRepos)}
\* what the server sends to a single call
AllBodies == {Undecodable} \cup {Body(d) : d \in WellFormedDocs \cup MalformedDocs}

\* no client constructed, no call made
InitVars ==
    /\ client = NoClient
    /\ permits = 0
    /\ waiters = << >>
    /\ granted = {}
    /\ calls = [c \in Calls |-> NewCall]
    /\ proc = NoProc

\* NumCalls concurrent calls on one client, GITHUB_ACTOR unset
Init == InitVars

Next ==
    \/ \E u \in Usernames, cls \in Classes, n \in 1..MaxCapacity :
         Construct(u, Unset, cls, n)
    \/ \E c \in Calls, k \in Kinds : Start(c, k)
    \/ \E c \in Calls : Acquire(c)
    \/ \E c \in Calls : Resume(c)
    \/ \E c \in Calls : TransportFault(c)
    \/ \E c \in Calls, s \in Statuses, b \in ConcurrentBodies :
         Respond(c, s, b, Max202)
    \/ \E c \in Calls : Decode(c)
    \/ \E c \in Calls : WakeFromSleep(c)
    \/ \E c \in Calls : SleepFault(c)
    \/ \E c \in Calls : Cancel(c)

Spec == Init /\ [][Next]_vars

\* one call on the client, every answer of the server and every value of
\* GITHUB_ACTOR
InitOne == InitVars

NextOne ==
    \/ \E u \in Usernames, a \in Actors, cls \in Classes, n \in 1..MaxCapacity :
         Construct(u, a, cls, n)
    \/ \E k \in Kinds : Start(1, k)
    \/ Acquire(1)
    \/ TransportFault(1)
    \/ \E s \in Statuses, b \in AllBodies : Respond(1, s, b, Budget + 1)
    \/ Decode(1)
    \/ WakeFromSleep(1)
    \/ SleepFault(1)
    \/ Cancel(1)

SpecOne == InitOne /\ [][NextOne]_vars

\* one call whose every step is eventually taken: the event loop runs a task
\* that is ready, every request ends (in a response or in an exception), every
\* decoding and every sleep ends; no cancellation and no exception in sleep
IOCompletes(c) ==
    \/ TransportFault(c)
    \/ \E s \in Statuses, b \in AllBodies : Respond(c, s, b, Budget + 1)

NextOneLive ==
    \/ \E u \in Usernames, a \in Actors, cls \in Classes, n \in 1..MaxCapacity :
         Construct(u, a, cls, n)
    \/ \E k \in Kinds : Start(1, k)
    \/ Acquire(1)
    \/ IOCompletes(1)
    \/ Decode(1)
    \/ WakeFromSleep(1)

SpecOneLive ==
    /\ InitOne
    /\ [][NextOneLive]_vars
    /\ WF_vars(Acquire(1))
    /\ WF_vars(IOCompletes(1))
    /\ WF_vars(Decode(1))
    /\ WF_vars(WakeFromSleep(1))

\* the concurrent calls, every step of which is eventually taken
IOCompletesConcurrent(c) ==
    \/ TransportFault(c)
    \/ \E s \in Statuses, b \in ConcurrentBodies : Respond(c, s, b, Max202)

\* the one step a call can take where it stands; the event loop runs every
\* task that is ready, and every request and sleep completes
Step(c) ==
    \/ Acquire(c)
    \/ Resume(c)
    \/ IOCompletesConcurrent(c)
    \/ Decode(c)
    \/ WakeFromSleep(c)

NextLive ==
    \/ \E n \in 1..MaxCapacity : Construct("octocat", Unset, "Queries", n)
    \/ \E c \in Calls, k \in {"query", "query_rest"} : Start(c, k)
    \/ \E c \in Calls : Acquire(c)
    \/ \E c \in Calls : Resume(c)
    \/ \E c \in Calls : IOCompletesConcurrent(c)
    \/ \E c \in Calls : Decode(c)
    \/ \E c \in Calls : WakeFromSleep(c)

SpecLive ==
    /\ Init
    /\ [][NextLive]_vars
    /\ \A c \in Calls : WF_vars(Step(c))

\* ------------------------------------------------------------------- main()
Tokens == {Unset, "", "secret"}

\* main() with ACCESS_TOKEN = token and GITHUB_ACTOR = actor, up to its first
\* suspension: the two checks of the environment, then Stats(user, token,
\* session) and to_str(), whose query takes a permit of the fresh semaphore
\* and sends its POST
Main(token, actor) ==
    /\ proc.pc = "none"
    /\ client.state = "none"
    /\ IF Missing(token)
       THEN /\ proc' = [pc |-> "exit", token |-> token, actor |-> actor,
                        stdout |-> << MainError("ACCESS_TOKEN") >>]
            /\ UNCHANGED <<client, permits, calls>>
       ELSE IF Missing(actor)
       THEN /\ proc' = [pc |-> "exit", token |-> token, actor |-> actor,
                        stdout |-> << MainError("GITHUB_ACTOR") >>]
            /\ UNCHANGED <<client, permits, calls>>
       ELSE /\ proc' = [pc |-> "awaiting", token |-> token, actor |-> actor,
                        stdout |-> << >>]
            /\ client' = [state |-> "ready", cls |-> "Stats", arg |-> actor,
                          actor |-> actor,
                          username |-> ResolveUsername(actor, actor),
                          cap |-> DefaultMaxConnections]
            /\ permits' = DefaultMaxConnections - 1
            /\ calls' = Set(1, SendRequest([calls[1] EXCEPT !.kind = "query",
                                                            !.toStr = TRUE]))
    /\ UNCHANGED <<waiters, granted>>

\* one run of the program
InitMain == InitVars

NextMain ==
    \/ \E t \in Tokens, a \in Actors : Main(t, a)
    \/ TransportFault(1)
    \/ \E s \in Statuses, b \in AllBodies : Respond(1, s, b, Budget + 1)
    \/ Decode(1)
    \/ Cancel(1)

SpecMain == InitMain /\ [][NextMain]_vars

\* ------------------------------------------------------------------ claims
\* the call is inside its HTTP I/O step: the request is out and the response
\* is not yet fully handled (awaited, being decoded, or slept on after a 202)
InIO(c) == calls[c].pc \in {"io", "decode", "sleep"}
Ended(c) == calls[c].pc = "done"
Quiescent == \A c \in Calls : calls[c].pc \in {"idle", "done"}

\* C1: on a client of capacity N the calls inside their HTTP I/O step are never
\* more than N, and every call inside its I/O step holds a permit.
C1_GateBound ==
    client.state = "ready" =>
        /\ Cardinality({c \in Calls : InIO(c)}) <= client.cap
        /\ \A c \in Calls : InIO(c) => calls[c].holds

\* the gate is full and another call is queued behind it
C1_Witness ==
    /\ client.state = "ready"
    /\ Cardinality({c \in Calls : InIO(c)}) = client.cap
    /\ \E c \in Calls : calls[c].pc = "waiting"

\* C2: a call that has ended (returned, failed on an exception, or cancelled)
\* holds no permit, and with no call in flight every permit is free.
C2_NoPermitLeak ==
    client.state = "ready" =>
        /\ \A c \in Calls : Ended(c) => ~HoldsPermit(c)
        /\ Quiescent => permits = client.cap

\* one call cancelled inside its I/O, another ended on an exception, all over
C2_Witness ==
    /\ Quiescent
    /\ \E c, d \in Calls :
         /\ calls[c].outcome = "cancelled" /\ calls[c].gets + calls[c].posts > 0
         /\ calls[d].fault # "none"
    /\ permits = client.cap

IsRest(c) == calls[c].kind = "query_rest"
IsQuery(c) == calls[c].kind = "query"
Returned(c) == Ended(c) /\ calls[c].outcome = "returned"
Finished(c) == Ended(c) /\ calls[c].outcome # "cancelled"

\* the server answered 202 on every attempt but the last, and 200 on the last
Answered202Then200(c) ==
    LET r == calls[c].responses
    IN /\ Len(r) >= 1
       /\ r[Len(r)] = 200
       /\ \A i \in 1..(Len(r) - 1) : r[i] = 202

\* the server answered 202 on every attempt
AnsweredOnly202(c) ==
    LET r == calls[c].responses
    IN Len(r) >= 1 /\ \A i \in 1..Len(r) : r[i] = 202

\* C3: a query_rest call answered 202 on its first k attempts (k < 30) and 200
\* with a JSON body on attempt k+1 returns the decoded body, after exactly k+1
\* GET requests and exactly k backoff sleeps of 2 each.
C3_RetryThenSuccess ==
    \A c \in Calls :
        LET k == Len(calls[c].responses) - 1
        IN (/\ IsRest(c) /\ Finished(c)
            /\ Answered202Then200(c) /\ k < Budget
            /\ calls[c].body.decodable)
           => /\ calls[c].outcome = "returned"
              /\ calls[c].ret = calls[c].body.doc
              /\ calls[c].gets = k + 1
              /\ calls[c].sleeps = k
              /\ calls[c].slept = k * BackoffInterval

\* 29 answers of 202, then a 200 whose body is returned on the last attempt
C3_Witness ==
    \E c \in Calls :
        /\ IsRest(c) /\ Returned(c) /\ Answered202Then200(c)
        /\ Len(calls[c].responses) = Budget
        /\ calls[c].body = Body(DocTwoRepos)
        /\ calls[c].ret = DocTwoRepos
        /\ calls[c].slept = (Budget - 1) * BackoffInterval

\* C4: a query_rest call never makes more than 30 GET requests, and one that is
\* answered 202 on every attempt makes exactly 30 and returns {} without raising.
C4_BudgetExhausted ==
    \A c \in Calls :
        IsRest(c) =>
            /\ calls[c].gets <= Budget
            /\ (Finished(c) /\ AnsweredOnly202(c) /\ calls[c].fault = "none")
               => /\ calls[c].outcome = "returned"
                  /\ calls[c].gets = Budget
                  /\ calls[c].ret = Sentinel

\* the budget is used up on 202 answers and the call has returned {}
C4_Witness ==
    \E c \in Calls :
        /\ IsRest(c) /\ Returned(c) /\ AnsweredOnly202(c)
        /\ calls[c].fault = "none"
        /\ calls[c].gets = Budget
        /\ calls[c].ret = Sentinel

\* C5: a query_rest call that uses up its 30 attempts on 202 answers has
\* printed an "incomplete data" diagnostic by the time it returns {}.
C5_ExhaustionDiagnostic ==
    \A c \in Calls :
        (/\ IsRest(c) /\ Returned(c) /\ AnsweredOnly202(c)
         /\ Len(calls[c].responses) = Budget
         /\ calls[c].fault = "none")
        => Len(calls[c].diag) > 0

\* C6: a query call whose transport raised has retried the same request once
\* on the fallback transport before it returns (two transport attempts).
C6_TransportFallback ==
    \A c \in Calls :
        (IsQuery(c) /\ Returned(c) /\ calls[c].fault = "ClientError")
        => calls[c].posts = 2

\* the call did not end on the decoded body of a response
Failed(c) ==
    \/ calls[c].fault # "none"
    \/ IsRest(c) /\ LastStatus(calls[c]) # 200

\* C7: query and query_rest end by returning, never by raising, and every
\* failure outcome has printed a diagnostic.
C7_NeverRaisesAndDiagnoses ==
    \A c \in Calls :
        Finished(c) =>
            /\ calls[c].outcome = "returned"
            /\ Failed(c) => Len(calls[c].diag) > 0

\* C8: constructing a client with an empty username while GITHUB_ACTOR is unset
\* raises; a client whose construction raised has issued no request and taken
\* no permit; no query or query_rest call ends by raising.
C8_ConstructionRaises ==
    /\ (client.state # "none" /\ client.arg = "" /\ client.actor = Unset)
       => client.state = "raised"
    /\ client.state = "raised"
       => /\ permits = 0 /\ waiters = << >> /\ granted = {}
          /\ \A c \in Calls :
               /\ calls[c].pc = "idle"
               /\ calls[c].posts = 0 /\ calls[c].gets = 0
               /\ ~HoldsPermit(c)
    /\ \A c \in Calls : calls[c].outcome # "raised"

\* the construction with no identity at all has raised
C8_Witness ==
    /\ client.state = "raised"
    /\ client.arg = "" /\ client.actor = Unset
    /\ \A c \in Calls : calls[c].pc = "idle"

\* the repository nodes of a well-formed answer
NodesOf(doc) ==
    GetItem(GetItem(GetItem(GetItem(doc, "data"), "user"), "repositories"), "nodes").v
\* the fork-exclusion filter on a list of nodes
NonForks(nodes) == SelectSeq(nodes, LAMBDA r : ~GetItem(r, "isFork").v)

\* C9: with fork exclusion at its default the summary of to_str reports the
\* number of repositories left by the filter and the sum of their stars.
C9_ForkFilter ==
    \A c \in Calls :
        (calls[c].toStr /\ Returned(c) /\ calls[c].out.kind = "summary")
        => LET kept == NonForks(NodesOf(calls[c].ret))
           IN /\ calls[c].out.repos = Len(kept)
              /\ calls[c].out.stars = SumStars(kept).v

\* C10: on every missing or malformed result shape to_str returns the fixed
\* error string and does not raise.
C10_MalformedGivesErrorString ==
    \A c \in Calls :
        (calls[c].toStr /\ Returned(c) /\ calls[c].ret \in MalformedDocs)
        => calls[c].out.kind = "error"

\* main() is over, and not by an interrupt
MainOver == proc.pc \in {"exit", "crashed"}

\* C11: with ACCESS_TOKEN or GITHUB_ACTOR missing main prints an error message
\* and ends with no client constructed, no request issued and no summary
\* printed; with both present it prints exactly one rendered summary.
C11_ExitContract ==
    /\ (proc.pc # "none" /\ (Missing(proc.token) \/ Missing(proc.actor)))
       => /\ proc.pc = "exit"
          /\ client.state = "none"
          /\ \A c \in Calls :
               calls[c].pc = "idle" /\ calls[c].posts = 0 /\ calls[c].gets = 0
          /\ Len(proc.stdout) = 1 /\ proc.stdout[1].kind = "missing"
    /\ (MainOver /\ ~Missing(proc.token) /\ ~Missing(proc.actor))
       => /\ proc.pc = "exit"
          /\ Len(proc.stdout) = 1
          /\ proc.stdout[1].kind \in {"summary", "error"}

\* C12: on a 202 the permit is released before the backoff sleep begins: no
\* call is in its backoff sleep while holding a permit.
C12_ReleaseBeforeSleep ==
    \A c \in Calls : calls[c].pc = "sleep" => ~HoldsPermit(c)

\* C13: in query_rest the first response that is neither 200 nor 202 ends the
\* call at once: {} is returned, no backoff sleep follows it and no further
\* GET is issued; every response before the last one was a 202.
C13_OtherStatusEndsCall ==
    \A c \in Calls :
        IsRest(c) =>
            LET r == calls[c].responses
            IN /\ \A i \in 1..(Len(r) - 1) : r[i] = 202
               /\ calls[c].gets <= N202(calls[c]) + 1
               /\ (Len(r) >= 1 /\ LastStatus(calls[c]) \notin {200, 202})
                  => /\ Returned(c)
                     /\ calls[c].ret = Sentinel
                     /\ calls[c].sleeps = N202(calls[c])
                     /\ calls[c].gets = Len(r)

\* a 202, a sleep, then a 404 that ended the call
C13_Witness ==
    \E c \in Calls :
        /\ IsRest(c) /\ Returned(c)
        /\ calls[c].responses = << 202, 404 >>
        /\ calls[c].ret = Sentinel
        /\ calls[c].gets = 2 /\ calls[c].sleeps = 1

\* the state of a query_rest call in the state machine of the retry loop
RestState(rec) ==
    CASE rec.pc = "idle" -> "NONE"
      [] rec.pc \in {"acquire", "waiting", "io", "decode"} -> "ATTEMPT"
      [] rec.pc = "sleep" -> "PROCESSING"
      [] rec.pc = "done" ->
           IF rec.outcome = "cancelled" THEN "CANCELLED"
           ELSE IF rec.fault = "none" /\ LastStatus(rec) = 200 THEN "SUCCESS"
           ELSE "FAILED"

\* the moves of the state machine. The wake-up from the 30th sleep passes the
\* head of the loop (ATTEMPT) and leaves it at once, the range being exhausted:
\* it shows as one step from PROCESSING to FAILED.
RestMove(old, new) ==
    \/ RestState(old) = RestState(new)
    \/ <<RestState(old), RestState(new)>> \in
         {<<"NONE", "ATTEMPT">>, <<"ATTEMPT", "SUCCESS">>, <<"ATTEMPT", "FAILED">>,
          <<"ATTEMPT", "PROCESSING">>, <<"PROCESSING", "ATTEMPT">>}
    \/ /\ RestState(old) = "PROCESSING" /\ RestState(new) = "FAILED"
       /\ new.attempt = Budget /\ new.fault = "none"

\* the requests of a call that have neither been answered nor failed
InFlight(rec) ==
    rec.gets + rec.posts - Len(rec.responses)
        - (IF rec.fault = "ClientError" THEN 1 ELSE 0)

Waiting(c) == calls[c].pc = "waiting"

C16_PermitConservation ==
    client.state = "ready" =>
        /\ permits + Cardinality({c \in Calls : HoldsPermit(c)}) = client.cap
        /\ permits >= 0 /\ permits <= client.cap
        /\ \A c \in Calls :
             /\ ~(calls[c].holds /\ c \in granted)
             /\ calls[c].acquired - calls[c].released
                    = (IF calls[c].holds THEN 1 ELSE 0)
             /\ calls[c].pc \in {"acquire", "waiting"} => ~calls[c].holds

\* a retrying call is back at the gate after its release, its permit handed
\* to a waiter that has not resumed, every permit in use
C16_Witness ==
    /\ permits = 0
    /\ \E c, d \in Calls :
         /\ calls[c].released >= 1 /\ calls[c].pc \in {"acquire", "waiting"}
         /\ d \in granted

RestFaulted(c) == IsRest(c) /\ calls[c].fault # "none"

\* C17: an exception in any attempt of query_rest (in the GET, in decoding the
\* 200 body, in the backoff sleep) is not retried: the call prints one
\* diagnostic, returns {} with budget left or not, and issues no GET after it.
C17_ExceptionNotRetried ==
    /\ [](\A c \in Calls :
            RestFaulted(c) =>
                /\ Returned(c)
                /\ calls[c].ret = Sentinel
                /\ calls[c].diag = << "REST query failed" >>
                /\ calls[c].gets = calls[c].attempt + 1)
    /\ [][\A c \in Calls :
            RestFaulted(c) => /\ calls'[c].gets = calls[c].gets
                              /\ calls'[c].pc = "done"]_vars

\* the second backoff sleep raised, 28 attempts of the budget unused
C17_Witness ==
    \E c \in Calls :
        /\ RestFaulted(c) /\ Returned(c)
        /\ calls[c].fault = "SleepError"
        /\ calls[c].responses = << 202, 202 >>
        /\ calls[c].gets = 2
        /\ calls[c].attempt < Budget - 1

\* C18: a query or query_rest call returns a value equal to the sentinel {}
\* only if it ended in failure, never on a success status with a decoded body.
C18_SentinelDistinct ==
    \A c \in Calls :
        (Returned(c) /\ calls[c].ret = Sentinel) => Failed(c)

IsToStr(c) == calls[c].toStr

\* C19: one to_str makes one query: exactly one POST, no GET, the gate
\* acquired once and released once; while it runs, never more than that.
C19_ToStrOneQuery ==
    \A c \in Calls :
        IsToStr(c) =>
            /\ IsQuery(c)
            /\ calls[c].gets = 0
            /\ calls[c].posts <= 1
            /\ calls[c].acquired = calls[c].posts
            /\ calls[c].released <= calls[c].acquired
            /\ Finished(c) => /\ calls[c].posts = 1
                              /\ calls[c].acquired = 1
                              /\ calls[c].released = 1
                              /\ calls[c].out # NoOutput

\* to_str has returned the summary of a well-formed answer
C19_Witness ==
    \E c \in Calls :
        /\ IsToStr(c) /\ Finished(c)
        /\ calls[c].out.kind = "summary"
        /\ calls[c].posts = 1 /\ calls[c].released = 1

====
